---- MODULE Spec2Model ----
(***************************************************************************)
(* Model of admin/aws.py: the intents, the boto performers, the FakeAWS    *)
(* performers, the two dispatcher tables and the two composite performers. *)
(*                                                                         *)
(* Byte strings (keys, prefixes, paths, file contents) are sequences of    *)
(* one-character strings, so that slicing, startswith, endswith and        *)
(* os.path.join are computed as Python computes them.  Bucket names, rule  *)
(* prefixes and redirect targets are only ever compared for equality and   *)
(* are plain strings.                                                      *)
(***************************************************************************)
EXTENDS Integers, Sequences, FiniteSets, TLC

VARIABLES
    session,     \* the group of intents the calling workflow issues in this run
    dispatcher,  \* which TypeDispatcher the caller hands to dispatch: "boto" or "fake"
    aws,         \* the FakeAWS object: routing_rules, s3_buckets, cloudfront_invalidations
    cloud,       \* what boto talks to: S3 website configurations, keys, ACLs; CloudFront
    fs,          \* the local filesystem behind FilePath: files (path -> content) and dirs
    frame,       \* the composite performer's generator while a composite intent runs
    inflight,    \* the sub-intents yielded by the composite performer and not yet performed
    trace,       \* sub-intents of the current top-level dispatch: issue / complete events
    pre,         \* aws, cloud and fs as they were when the current dispatch began
    last         \* the current top-level dispatch: its intent and its result

vars == <<session, dispatcher, aws, cloud, fs, frame, inflight, trace, pre, last>>

-----------------------------------------------------------------------------
(* Python string operations. *)

\* str.startswith(p)
StartsWith(s, p) == Len(p) <= Len(s) /\ SubSeq(s, 1, Len(p)) = p

\* str.endswith(e)
EndsWith(s, e) == Len(e) <= Len(s) /\ SubSeq(s, Len(s) - Len(e) + 1, Len(s)) = e

\* str.endswith(tuple): true when the string ends with one of the tuple's members
EndsWithAny(s, exts) == \E i \in DOMAIN exts : EndsWith(s, exts[i])

\* s[n:]
Slice(s, n) == SubSeq(s, n + 1, Len(s))

\* the index of the last "/" of s, 0 when there is none: s.rfind("/") + 1
LastSlash(s) ==
    IF \E i \in DOMAIN s : s[i] = "/"
    THEN CHOOSE i \in DOMAIN s : s[i] = "/" /\ \A j \in (i + 1)..Len(s) : s[j] # "/"
    ELSE 0

\* s.split("/")
RECURSIVE SplitSlash(_)
SplitSlash(s) ==
    IF \A i \in DOMAIN s : s[i] # "/" THEN <<s>>
    ELSE LET i == CHOOSE i \in DOMAIN s :
                      s[i] = "/" /\ \A j \in 1..(i - 1) : s[j] # "/"
         IN <<SubSeq(s, 1, i - 1)>> \o SplitSlash(Slice(s, i))

\* "/".join(comps)
RECURSIVE JoinSlash(_)
JoinSlash(comps) ==
    IF comps = <<>> THEN <<>>
    ELSE IF Len(comps) = 1 THEN comps[1]
    ELSE comps[1] \o <<"/">> \o JoinSlash(Tail(comps))

\* s.rstrip("/")
RECURSIVE RStripSlash(_)
RStripSlash(s) ==
    IF s # <<>> /\ s[Len(s)] = "/" THEN RStripSlash(SubSeq(s, 1, Len(s) - 1)) ELSE s

\* os.path.join(a, b): an absolute b discards a
OsPathJoin(a, b) ==
    IF StartsWith(b, <<"/">>) THEN b
    ELSE IF a = <<>> \/ EndsWith(a, <<"/">>) THEN a \o b
    ELSE a \o <<"/">> \o b

\* the loop of os.path.normpath over the components
RECURSIVE NormComps(_, _, _)
NormComps(comps, new, initial) ==
    IF comps = <<>> THEN new
    ELSE LET c == Head(comps) IN
         IF c = <<>> \/ c = <<".">> THEN NormComps(Tail(comps), new, initial)
         ELSE IF c # <<".", ".">>
                 \/ (initial = 0 /\ new = <<>>)
                 \/ (new # <<>> /\ new[Len(new)] = <<".", ".">>)
              THEN NormComps(Tail(comps), Append(new, c), initial)
         ELSE IF new # <<>>
              THEN NormComps(Tail(comps), SubSeq(new, 1, Len(new) - 1), initial)
         ELSE NormComps(Tail(comps), new, initial)

\* os.path.normpath
OsPathNormpath(path) ==
    IF path = <<>> THEN <<".">>
    ELSE LET initial == IF ~StartsWith(path, <<"/">>) THEN 0
                        ELSE IF StartsWith(path, <<"/", "/">>)
                                /\ ~StartsWith(path, <<"/", "/", "/">>) THEN 2
                        ELSE 1
             body == JoinSlash(NormComps(SplitSlash(path), <<>>, initial))
             out == [i \in 1..initial |-> "/"] \o body
         IN IF out = <<>> THEN <<".">> ELSE out

\* os.path.dirname
OsPathDirname(p) ==
    LET head == SubSeq(p, 1, LastSlash(p))
    IN IF head # <<>> /\ \E i \in DOMAIN head : head[i] # "/"
       THEN RStripSlash(head) ELSE head

-----------------------------------------------------------------------------
(* twisted.python.filepath.FilePath over fs. *)

\* FilePath.basename
Basename(path) == Slice(path, LastSlash(path))

\* FilePath.parent
Parent(path) == OsPathDirname(path)

\* FilePath.exists
Exists(f, path) == path \in f.dirs \/ path \in DOMAIN f.files

\* FilePath.isfile
IsFile(f, path) == path \in DOMAIN f.files

\* FilePath.preauthChild: the joined path; InsecurePath when it is not below self
PreauthChild(self, child) ==
    LET newpath == OsPathNormpath(OsPathJoin(self, OsPathNormpath(child)))
    IN IF StartsWith(newpath, self)
       THEN [error |-> "none", path |-> newpath]
       ELSE [error |-> "InsecurePath", path |-> newpath]

\* the path and every proper ancestor of it below the root
RECURSIVE Ancestors(_)
Ancestors(path) ==
    IF path = <<>> \/ path = <<"/">> THEN {}
    ELSE {path} \cup Ancestors(Parent(path))

\* FilePath.makedirs: os.makedirs, which fails when a component is a regular file
Makedirs(f, path) ==
    IF \E a \in Ancestors(path) : a \in DOMAIN f.files
    THEN [error |-> "OSError", fs |-> f]
    ELSE [error |-> "none", fs |-> [f EXCEPT !.dirs = @ \cup Ancestors(path)]]

\* FilePath.walk: the path itself, then everything below it when it is a directory
Walk(f, root) ==
    {root} \cup
    (IF root \in f.dirs
     THEN {q \in f.dirs \cup DOMAIN f.files : StartsWith(q, root \o <<"/">>)}
     ELSE {})

\* the file written: the content replaces whatever the path held
WriteFile(f, path, content) ==
    [f EXCEPT !.files = [q \in DOMAIN @ \cup {path} |->
                            IF q = path THEN content ELSE @[q]]]

-----------------------------------------------------------------------------
(* Results of a performer: a returned value (the string "None" for None, a *)
(* set of names for ListS3Keys) or the exception raised.                   *)

Returned(v) == [error |-> "none", value |-> v, names |-> {}]
ReturnedNames(S) == [error |-> "none", value |-> "None", names |-> S]
Raised(e) == [error |-> e, value |-> "None", names |-> {}]
Pending == [error |-> "pending", value |-> "None", names |-> {}]

\* the elements of a sequence
Range(seq) == {seq[i] : i \in DOMAIN seq}

\* a mapping with one key bound to a value (dict[k] = v)
DictSet(d, k, v) == [q \in DOMAIN d \cup {k} |-> IF q = k THEN v ELSE d[q]]

\* a mapping with one key removed (del dict[k])
DictDel(d, k) == [q \in DOMAIN d \ {k} |-> d[q]]

-----------------------------------------------------------------------------
(* The FakeAWS performers.  Each takes the state st = [aws, cloud, fs] and *)
(* the intent, and gives the state it leaves and its result.               *)

\* FakeAWS._perform_update_s3_routing_rule over dictionaries that make the entry
\* they are asked for (setdefault): an absent bucket or prefix is created
FakeAWS_perform_update_s3_routing_rule_setdefault(st, intent) ==
    LET rules == st.aws.routing_rules
        bucket == IF intent.bucket \in DOMAIN rules THEN rules[intent.bucket] ELSE <<>>
        old_target == IF intent.prefix \in DOMAIN bucket THEN bucket[intent.prefix]
                      ELSE "None"
    IN [st |-> [st EXCEPT !.aws.routing_rules =
                   DictSet(rules, intent.bucket,
                           DictSet(bucket, intent.prefix, intent.target_prefix))],
        result |-> Returned(old_target)]

\* FakeAWS._perform_update_s3_routing_rule
FakeAWS_perform_update_s3_routing_rule(st, intent) ==
    LET rules == st.aws.routing_rules IN
    IF intent.bucket \notin DOMAIN rules
       \/ intent.prefix \notin DOMAIN rules[intent.bucket]
    THEN [st |-> st, result |-> Raised("KeyError")]
    ELSE LET old_target == rules[intent.bucket][intent.prefix] IN
         [st |-> [st EXCEPT !.aws.routing_rules[intent.bucket][intent.prefix] =
                                intent.target_prefix],
          result |-> Returned(old_target)]

\* FakeAWS._perform_create_cloudfront_invalidation keeping each intent once
\* (if intent not in self.cloudfront_invalidations: append)
FakeAWS_perform_create_cloudfront_invalidation_once(st, intent) ==
    [st |-> [st EXCEPT !.aws.cloudfront_invalidations =
                 IF intent \in Range(@) THEN @ ELSE Append(@, intent)],
     result |-> Returned("None")]

\* FakeAWS._perform_create_cloudfront_invalidation
FakeAWS_perform_create_cloudfront_invalidation(st, intent) ==
    [st |-> [st EXCEPT !.aws.cloudfront_invalidations = Append(@, intent)],
     result |-> Returned("None")]

\* the loop of FakeAWS._perform_delete_s3_keys stopping one key early
\* (for key in intent.keys[:-1])
RECURSIVE FakeDeleteLoop_skip_last(_, _, _)
FakeDeleteLoop_skip_last(bucket, prefix, keys) ==
    IF Len(keys) <= 1 THEN [bucket |-> bucket, error |-> "none"]
    ELSE IF prefix \o Head(keys) \notin DOMAIN bucket
         THEN [bucket |-> bucket, error |-> "KeyError"]
    ELSE FakeDeleteLoop_skip_last(DictDel(bucket, prefix \o Head(keys)), prefix, Tail(keys))

\* the loop of FakeAWS._perform_delete_s3_keys passing over the keys the bucket
\* does not hold (bucket.pop(prefix + key, None))
RECURSIVE FakeDeleteLoop_pop(_, _, _)
FakeDeleteLoop_pop(bucket, prefix, keys) ==
    IF keys = <<>> THEN [bucket |-> bucket, error |-> "none"]
    ELSE FakeDeleteLoop_pop(DictDel(bucket, prefix \o Head(keys)), prefix, Tail(keys))

\* the loop of FakeAWS._perform_delete_s3_keys: del bucket[prefix + key], in order
RECURSIVE FakeDeleteLoop(_, _, _)
FakeDeleteLoop(bucket, prefix, keys) ==
    IF keys = <<>> THEN [bucket |-> bucket, error |-> "none"]
    ELSE IF prefix \o Head(keys) \notin DOMAIN bucket
         THEN [bucket |-> bucket, error |-> "KeyError"]
    ELSE FakeDeleteLoop(DictDel(bucket, prefix \o Head(keys)), prefix, Tail(keys))

\* FakeAWS._perform_delete_s3_keys
FakeAWS_perform_delete_s3_keys(st, intent) ==
    IF intent.bucket \notin DOMAIN st.aws.s3_buckets
    THEN [st |-> st, result |-> Raised("KeyError")]
    ELSE LET r == FakeDeleteLoop(st.aws.s3_buckets[intent.bucket],
                                 intent.prefix, intent.keys)
         IN [st |-> [st EXCEPT !.aws.s3_buckets[intent.bucket] = r.bucket],
             result |-> IF r.error = "none" THEN Returned("None") ELSE Raised(r.error)]

\* the loop of FakeAWS._perform_copy_s3_keys moving each key: the source key is
\* deleted once it is copied
RECURSIVE FakeCopyLoop_move(_, _, _)
FakeCopyLoop_move(buckets, intent, keys) ==
    IF keys = <<>> THEN [buckets |-> buckets, error |-> "none"]
    ELSE IF intent.source_prefix \o Head(keys) \notin DOMAIN buckets[intent.source_bucket]
         THEN [buckets |-> buckets, error |-> "KeyError"]
    ELSE LET copied == [buckets EXCEPT ![intent.destination_bucket] =
                           DictSet(@, intent.destination_prefix \o Head(keys),
                                   buckets[intent.source_bucket]
                                          [intent.source_prefix \o Head(keys)])]
         IN FakeCopyLoop_move(
                [copied EXCEPT ![intent.source_bucket] =
                    DictDel(@, intent.source_prefix \o Head(keys))],
                intent, Tail(keys))

\* the loop of FakeAWS._perform_copy_s3_keys made all-or-nothing: the source keys
\* are looked up before anything is copied
RECURSIVE FakeCopyLoop_all_or_nothing(_, _, _)
FakeCopyLoop_all_or_nothing(buckets, intent, keys) ==
    IF keys = <<>> THEN [buckets |-> buckets, error |-> "none"]
    ELSE IF \E k \in Range(keys) :
                intent.source_prefix \o k \notin DOMAIN buckets[intent.source_bucket]
         THEN [buckets |-> buckets, error |-> "KeyError"]
    ELSE FakeCopyLoop_all_or_nothing(
             [buckets EXCEPT ![intent.destination_bucket] =
                 DictSet(@, intent.destination_prefix \o Head(keys),
                         buckets[intent.source_bucket][intent.source_prefix \o Head(keys)])],
             intent, Tail(keys))

\* the loop of FakeAWS._perform_copy_s3_keys; the two buckets may be one dictionary
RECURSIVE FakeCopyLoop(_, _, _)
FakeCopyLoop(buckets, intent, keys) ==
    IF keys = <<>> THEN [buckets |-> buckets, error |-> "none"]
    ELSE IF intent.source_prefix \o Head(keys) \notin DOMAIN buckets[intent.source_bucket]
         THEN [buckets |-> buckets, error |-> "KeyError"]
    ELSE FakeCopyLoop(
             [buckets EXCEPT ![intent.destination_bucket] =
                 DictSet(@, intent.destination_prefix \o Head(keys),
                         buckets[intent.source_bucket][intent.source_prefix \o Head(keys)])],
             intent, Tail(keys))

\* FakeAWS._perform_copy_s3_keys
FakeAWS_perform_copy_s3_keys(st, intent) ==
    IF intent.source_bucket \notin DOMAIN st.aws.s3_buckets
       \/ intent.destination_bucket \notin DOMAIN st.aws.s3_buckets
    THEN [st |-> st, result |-> Raised("KeyError")]
    ELSE LET r == FakeCopyLoop(st.aws.s3_buckets, intent, intent.keys)
         IN [st |-> [st EXCEPT !.aws.s3_buckets = r.buckets],
             result |-> IF r.error = "none" THEN Returned("None") ELSE Raised(r.error)]

\* the set comprehension of FakeAWS._perform_list_s3_keys without the slice: the
\* matching keys are returned whole
FakeListNames_unstripped(bucket, prefix) ==
    {key : key \in {k \in DOMAIN bucket : StartsWith(k, prefix)}}

\* the set comprehension of FakeAWS._perform_list_s3_keys without its condition:
\* every key of the bucket is sliced
FakeListNames_unfiltered(bucket, prefix) ==
    {Slice(key, Len(prefix)) : key \in DOMAIN bucket}

\* the set comprehension of FakeAWS._perform_list_s3_keys
FakeListNames(bucket, prefix) ==
    {Slice(key, Len(prefix)) : key \in {k \in DOMAIN bucket : StartsWith(k, prefix)}}

\* FakeAWS._perform_list_s3_keys
FakeAWS_perform_list_s3_keys(st, intent) ==
    IF intent.bucket \notin DOMAIN st.aws.s3_buckets
    THEN [st |-> st, result |-> Raised("KeyError")]
    ELSE [st |-> st,
          result |-> ReturnedNames(
              FakeListNames(st.aws.s3_buckets[intent.bucket], intent.prefix))]

\* FilePath.setContent: a sibling temporary file is written and renamed over the path
SetContent(f, path, content) ==
    IF Parent(path) \notin f.dirs THEN [error |-> "IOError", fs |-> f]
    ELSE IF path \in f.dirs THEN [error |-> "OSError", fs |-> f]
    ELSE [error |-> "none", fs |-> WriteFile(f, path, content)]

\* FakeAWS._perform_download_s3_key taking the key out of the bucket
\* (bucket.pop(intent.source_key))
FakeAWS_perform_download_s3_key_pop(st, intent) ==
    IF intent.source_bucket \notin DOMAIN st.aws.s3_buckets
       \/ intent.source_key \notin DOMAIN st.aws.s3_buckets[intent.source_bucket]
    THEN [st |-> st, result |-> Raised("KeyError")]
    ELSE LET w == SetContent(st.fs, intent.target_path,
                             st.aws.s3_buckets[intent.source_bucket][intent.source_key])
         IN [st |-> [st EXCEPT !.fs = w.fs,
                               !.aws.s3_buckets[intent.source_bucket] =
                                   DictDel(@, intent.source_key)],
             result |-> IF w.error = "none" THEN Returned("None") ELSE Raised(w.error)]

\* FakeAWS._perform_download_s3_key
FakeAWS_perform_download_s3_key(st, intent) ==
    IF intent.source_bucket \notin DOMAIN st.aws.s3_buckets
       \/ intent.source_key \notin DOMAIN st.aws.s3_buckets[intent.source_bucket]
    THEN [st |-> st, result |-> Raised("KeyError")]
    ELSE LET w == SetContent(st.fs, intent.target_path,
                             st.aws.s3_buckets[intent.source_bucket][intent.source_key])
         IN [st |-> [st EXCEPT !.fs = w.fs],
             result |-> IF w.error = "none" THEN Returned("None") ELSE Raised(w.error)]

\* the key an upload writes: target_key + file.path[len(source_path.path):]
UploadKeyName(intent) ==
    intent.target_key \o Slice(intent.file, Len(intent.source_path))

\* FakeAWS._perform_upload_s3_key with the key built from the whole file path
\* (target_key + file.path), source_path not cut off
FakeAWS_perform_upload_s3_key_whole_path(st, intent) ==
    IF intent.target_bucket \notin DOMAIN st.aws.s3_buckets
    THEN [st |-> st, result |-> Raised("KeyError")]
    ELSE IF ~IsFile(st.fs, intent.file)
    THEN [st |-> st, result |-> Raised("IOError")]
    ELSE [st |-> [st EXCEPT !.aws.s3_buckets[intent.target_bucket] =
                     DictSet(@, intent.target_key \o intent.file, st.fs.files[intent.file])],
          result |-> Returned("None")]

\* FakeAWS._perform_upload_s3_key
FakeAWS_perform_upload_s3_key(st, intent) ==
    IF intent.target_bucket \notin DOMAIN st.aws.s3_buckets
    THEN [st |-> st, result |-> Raised("KeyError")]
    ELSE IF ~IsFile(st.fs, intent.file)
    THEN [st |-> st, result |-> Raised("IOError")]
    ELSE [st |-> [st EXCEPT !.aws.s3_buckets[intent.target_bucket] =
                     DictSet(@, UploadKeyName(intent), st.fs.files[intent.file])],
          result |-> Returned("None")]

-----------------------------------------------------------------------------
(* The boto performers.  cloud stands for the services behind boto:        *)
(*   website   bucket -> the routing rules of its website configuration,   *)
(*             in order, each [key_prefix, replace_key_prefix]             *)
(*   keys      bucket -> (key name -> content)                             *)
(*   public    the <<bucket, key>> pairs made publicly readable            *)
(*   distributions, invalidation_requests   CloudFront                     *)

\* the first index of the list comprehension of line 42: the rules matching the prefix
MatchingRules(rules, prefix) == {i \in DOMAIN rules : rules[i].key_prefix = prefix}

\* [...][-1] of a list comprehension over seq: the greatest matching index
First_last(indices) == CHOOSE i \in indices : \A j \in indices : i >= j

\* [...][0] of a list comprehension over seq: the least matching index
First(indices) == CHOOSE i \in indices : \A j \in indices : i <= j

\* perform_update_s3_routing_rule without the set_website_configuration call: the
\* changed configuration object is never stored
perform_update_s3_routing_rule_not_stored(st, intent) ==
    IF intent.bucket \notin DOMAIN st.cloud.keys
       \/ intent.bucket \notin DOMAIN st.cloud.website
    THEN [st |-> st, result |-> Raised("S3ResponseError")]
    ELSE LET config == st.cloud.website[intent.bucket]
             matching == MatchingRules(config, intent.prefix)
         IN IF matching = {} THEN [st |-> st, result |-> Raised("IndexError")]
            ELSE LET rule == First(matching) IN
                 IF config[rule].replace_key_prefix = intent.target_prefix
                 THEN [st |-> st, result |-> Returned("None")]
                 ELSE [st |-> st, result |-> Returned(config[rule].replace_key_prefix)]

\* perform_update_s3_routing_rule
perform_update_s3_routing_rule(st, intent) ==
    IF intent.bucket \notin DOMAIN st.cloud.keys
       \/ intent.bucket \notin DOMAIN st.cloud.website
    THEN [st |-> st, result |-> Raised("S3ResponseError")]
    ELSE LET config == st.cloud.website[intent.bucket]
             matching == MatchingRules(config, intent.prefix)
         IN IF matching = {} THEN [st |-> st, result |-> Raised("IndexError")]
            ELSE LET rule == First(matching) IN
                 IF config[rule].replace_key_prefix = intent.target_prefix
                 THEN [st |-> st, result |-> Returned("None")]
                 ELSE LET old_prefix == config[rule].replace_key_prefix IN
                      [st |-> [st EXCEPT !.cloud.website[intent.bucket][rule]
                                             .replace_key_prefix = intent.target_prefix],
                       result |-> Returned(old_prefix)]

\* perform_create_cloudfront_invalidation
perform_create_cloudfront_invalidation(st, intent) ==
    LET dists == {i \in DOMAIN st.cloud.distributions :
                      intent.cname \in st.cloud.distributions[i].cnames}
    IN IF dists = {} THEN [st |-> st, result |-> Raised("IndexError")]
       ELSE [st |-> [st EXCEPT !.cloud.invalidation_requests =
                        Append(@, [distribution |-> st.cloud.distributions[First(dists)].id,
                                   paths |-> intent.paths])],
             result |-> Returned("None")]

\* perform_delete_s3_keys: one batch call; S3 ignores the names it does not hold
perform_delete_s3_keys(st, intent) ==
    IF intent.bucket \notin DOMAIN st.cloud.keys
    THEN [st |-> st, result |-> Raised("S3ResponseError")]
    ELSE LET gone == {intent.prefix \o key : key \in Range(intent.keys)} IN
         [st |-> [st EXCEPT
                     !.cloud.keys[intent.bucket] = [k \in DOMAIN @ \ gone |-> @[k]],
                     !.cloud.public = @ \ {<<intent.bucket, k>> : k \in gone}],
          result |-> Returned("None")]

\* the loop of perform_copy_s3_keys: one copy_key call per key, in order
RECURSIVE CopyLoop(_, _, _)
CopyLoop(c, intent, keys) ==
    IF keys = <<>> THEN [cloud |-> c, error |-> "none"]
    ELSE IF intent.source_bucket \notin DOMAIN c.keys
            \/ intent.source_prefix \o Head(keys) \notin DOMAIN c.keys[intent.source_bucket]
         THEN [cloud |-> c, error |-> "S3ResponseError"]
    ELSE CopyLoop(
             [c EXCEPT
                 !.keys[intent.destination_bucket] =
                     DictSet(@, intent.destination_prefix \o Head(keys),
                             c.keys[intent.source_bucket][intent.source_prefix \o Head(keys)]),
                 !.public = @ \ {<<intent.destination_bucket,
                                   intent.destination_prefix \o Head(keys)>>}],
             intent, Tail(keys))

\* perform_copy_s3_keys
perform_copy_s3_keys(st, intent) ==
    IF intent.destination_bucket \notin DOMAIN st.cloud.keys
    THEN [st |-> st, result |-> Raised("S3ResponseError")]
    ELSE LET r == CopyLoop(st.cloud, intent, intent.keys)
         IN [st |-> [st EXCEPT !.cloud = r.cloud],
             result |-> IF r.error = "none" THEN Returned("None") ELSE Raised(r.error)]

\* bucket.list(prefix): the key names that begin with the prefix
BucketList(bucket, prefix) == {k \in DOMAIN bucket : StartsWith(k, prefix)}

\* the set comprehension of perform_list_s3_keys
ListNames(bucket, prefix) ==
    {Slice(name, Len(prefix)) : name \in BucketList(bucket, prefix)}

\* perform_list_s3_keys
perform_list_s3_keys(st, intent) ==
    IF intent.bucket \notin DOMAIN st.cloud.keys
    THEN [st |-> st, result |-> Raised("S3ResponseError")]
    ELSE [st |-> st,
          result |-> ReturnedNames(ListNames(st.cloud.keys[intent.bucket], intent.prefix))]

\* FilePath.open("w"): the file is created or truncated
OpenW(f, path) ==
    IF Parent(path) \notin f.dirs \/ path \in f.dirs THEN [error |-> "IOError", fs |-> f]
    ELSE [error |-> "none", fs |-> WriteFile(f, path, <<>>)]

\* perform_download_s3_key: get_key gives None for a missing key, and the file is
\* opened (truncated) before the contents are asked for
perform_download_s3_key(st, intent) ==
    IF intent.source_bucket \notin DOMAIN st.cloud.keys
    THEN [st |-> st, result |-> Raised("S3ResponseError")]
    ELSE LET bucket == st.cloud.keys[intent.source_bucket]
             w == OpenW(st.fs, intent.target_path)
         IN IF w.error # "none" THEN [st |-> st, result |-> Raised(w.error)]
            ELSE IF intent.source_key \notin DOMAIN bucket
            THEN [st |-> [st EXCEPT !.fs = w.fs], result |-> Raised("AttributeError")]
            ELSE [st |-> [st EXCEPT !.fs = WriteFile(w.fs, intent.target_path,
                                                     bucket[intent.source_key])],
                  result |-> Returned("None")]

\* perform_upload_s3_key
perform_upload_s3_key(st, intent) ==
    IF intent.target_bucket \notin DOMAIN st.cloud.keys
    THEN [st |-> st, result |-> Raised("S3ResponseError")]
    ELSE IF ~IsFile(st.fs, intent.file)
    THEN [st |-> st, result |-> Raised("IOError")]
    ELSE [st |-> [st EXCEPT
                     !.cloud.keys[intent.target_bucket] =
                         DictSet(@, UploadKeyName(intent), st.fs.files[intent.file]),
                     !.cloud.public = @ \cup {<<intent.target_bucket, UploadKeyName(intent)>>}],
          result |-> Returned("None")]

-----------------------------------------------------------------------------
(* The dispatcher tables and dispatch. *)

\* the intent classes of the module
IntentVariants ==
    {"UpdateS3RoutingRule", "CreateCloudFrontInvalidation", "DeleteS3Keys",
     "CopyS3Keys", "ListS3Keys", "DownloadS3Key", "DownloadS3KeyRecursively",
     "UploadToS3", "UploadToS3Recursively"}

\* boto_dispatcher
boto_dispatcher ==
    [UpdateS3RoutingRule |-> "perform_update_s3_routing_rule",
     ListS3Keys |-> "perform_list_s3_keys",
     DeleteS3Keys |-> "perform_delete_s3_keys",
     CopyS3Keys |-> "perform_copy_s3_keys",
     DownloadS3KeyRecursively |-> "perform_download_s3_key_recursively",
     DownloadS3Key |-> "perform_download_s3_key",
     UploadToS3Recursively |-> "perform_upload_s3_key_recursively",
     UploadToS3 |-> "perform_upload_s3_key",
     CreateCloudFrontInvalidation |-> "perform_create_cloudfront_invalidation"]

\* FakeAWS.get_dispatcher with the DownloadS3Key entry forgotten
get_dispatcher_without_download ==
    [DownloadS3KeyRecursively |-> "perform_download_s3_key_recursively",
     UploadToS3Recursively |-> "perform_upload_s3_key_recursively",
     UpdateS3RoutingRule |-> "FakeAWS._perform_update_s3_routing_rule",
     ListS3Keys |-> "FakeAWS._perform_list_s3_keys",
     DeleteS3Keys |-> "FakeAWS._perform_delete_s3_keys",
     CopyS3Keys |-> "FakeAWS._perform_copy_s3_keys",
     UploadToS3 |-> "FakeAWS._perform_upload_s3_key",
     CreateCloudFrontInvalidation |-> "FakeAWS._perform_create_cloudfront_invalidation"]

\* FakeAWS.get_dispatcher
get_dispatcher ==
    [DownloadS3KeyRecursively |-> "perform_download_s3_key_recursively",
     UploadToS3Recursively |-> "perform_upload_s3_key_recursively",
     UpdateS3RoutingRule |-> "FakeAWS._perform_update_s3_routing_rule",
     ListS3Keys |-> "FakeAWS._perform_list_s3_keys",
     DeleteS3Keys |-> "FakeAWS._perform_delete_s3_keys",
     CopyS3Keys |-> "FakeAWS._perform_copy_s3_keys",
     DownloadS3Key |-> "FakeAWS._perform_download_s3_key",
     UploadToS3 |-> "FakeAWS._perform_upload_s3_key",
     CreateCloudFrontInvalidation |-> "FakeAWS._perform_create_cloudfront_invalidation"]

\* the table behind a dispatcher
Table(d) == IF d = "boto" THEN boto_dispatcher ELSE get_dispatcher

\* TypeDispatcher.__call__: the performer registered for the intent's type, or None
TypeDispatcher(table, type) == IF type \in DOMAIN table THEN table[type] ELSE "None"

\* what dispatch raises when the dispatcher gives no performer
UnhandledIntent == "NoPerformerFoundError"

\* the performers written with @do, which yield sub-intents
CompositePerformers ==
    {"perform_download_s3_key_recursively", "perform_upload_s3_key_recursively"}

\* a sync performer run to completion on st
Perform(performer, st, intent) ==
    CASE performer = "perform_update_s3_routing_rule" ->
             perform_update_s3_routing_rule(st, intent)
      [] performer = "perform_create_cloudfront_invalidation" ->
             perform_create_cloudfront_invalidation(st, intent)
      [] performer = "perform_delete_s3_keys" -> perform_delete_s3_keys(st, intent)
      [] performer = "perform_copy_s3_keys" -> perform_copy_s3_keys(st, intent)
      [] performer = "perform_list_s3_keys" -> perform_list_s3_keys(st, intent)
      [] performer = "perform_download_s3_key" -> perform_download_s3_key(st, intent)
      [] performer = "perform_upload_s3_key" -> perform_upload_s3_key(st, intent)
      [] performer = "FakeAWS._perform_update_s3_routing_rule" ->
             FakeAWS_perform_update_s3_routing_rule(st, intent)
      [] performer = "FakeAWS._perform_create_cloudfront_invalidation" ->
             FakeAWS_perform_create_cloudfront_invalidation(st, intent)
      [] performer = "FakeAWS._perform_delete_s3_keys" ->
             FakeAWS_perform_delete_s3_keys(st, intent)
      [] performer = "FakeAWS._perform_copy_s3_keys" ->
             FakeAWS_perform_copy_s3_keys(st, intent)
      [] performer = "FakeAWS._perform_list_s3_keys" ->
             FakeAWS_perform_list_s3_keys(st, intent)
      [] performer = "FakeAWS._perform_download_s3_key" ->
             FakeAWS_perform_download_s3_key(st, intent)
      [] performer = "FakeAWS._perform_upload_s3_key" ->
             FakeAWS_perform_upload_s3_key(st, intent)

-----------------------------------------------------------------------------
(* The composite performers: generators that yield one Effect at a time.   *)

\* no composite performer is running
NoFrame == [performer |-> "none", pc |-> "idle", todo |-> {}]

\* the generator of a composite performer, at its first statement
NewFrame(performer, intent, f) ==
    IF performer = "perform_download_s3_key_recursively"
    THEN [performer |-> performer, pc |-> "list", todo |-> {}]
    ELSE [performer |-> performer, pc |-> "loop", todo |-> Walk(f, intent.source_path)]

\* a generator that runs on without waiting for the result of what it yielded
CanIssue_always(pending) == TRUE

\* yield: the generator is resumed only with the result of the Effect it yielded
CanIssue(pending) == pending = {}

\* the Effects a composite performer yields performed by the module's
\* boto_dispatcher, whatever dispatcher performs the composite intent
SubDispatcher_boto(d) == "boto"

\* the dispatcher that performs the Effects a composite performer yields: the one
\* that is performing the composite intent
SubDispatcher(d) == d

\* the ListS3Keys of perform_download_s3_key_recursively
ListIntentOf(intent) ==
    [type |-> "ListS3Keys", prefix |-> intent.source_prefix \o <<"/">>,
     bucket |-> intent.source_bucket]

\* one pass of the loop body of perform_download_s3_key_recursively for key:
\* skip |-> the key is filtered out; otherwise the error raised, or the filesystem
\* after makedirs and the DownloadS3Key to yield
DownloadLoopBody(f, intent, key) ==
    IF ~EndsWithAny(key, intent.filter_extensions)
    THEN [skip |-> TRUE, error |-> "none", fs |-> f, sub |-> <<>>]
    ELSE LET path == PreauthChild(intent.target_path, key) IN
         IF path.error # "none"
         THEN [skip |-> FALSE, error |-> path.error, fs |-> f, sub |-> <<>>]
         ELSE LET made == IF ~Exists(f, Parent(path.path))
                          THEN Makedirs(f, Parent(path.path))
                          ELSE [error |-> "none", fs |-> f]
                  source_key == OsPathJoin(intent.source_prefix, key)
              IN [skip |-> FALSE, error |-> made.error, fs |-> made.fs,
                  sub |-> [type |-> "DownloadS3Key",
                           source_bucket |-> intent.source_bucket,
                           source_key |-> source_key,
                           target_path |-> path.path]]

\* the loop body of perform_upload_s3_key_recursively without the path.isfile()
\* test
UploadLoopBody_no_isfile(f, intent, path) ==
    IF Basename(path) \in Range(intent.files)
    THEN [skip |-> FALSE,
          sub |-> [type |-> "UploadToS3", source_path |-> intent.source_path,
                   target_bucket |-> intent.target_bucket,
                   target_key |-> intent.target_key, file |-> path]]
    ELSE [skip |-> TRUE, sub |-> <<>>]

\* one pass of the loop body of perform_upload_s3_key_recursively for path
UploadLoopBody(f, intent, path) ==
    IF Basename(path) \in Range(intent.files) /\ IsFile(f, path)
    THEN [skip |-> FALSE,
          sub |-> [type |-> "UploadToS3", source_path |-> intent.source_path,
                   target_bucket |-> intent.target_bucket,
                   target_key |-> intent.target_key, file |-> path]]
    ELSE [skip |-> TRUE, sub |-> <<>>]

-----------------------------------------------------------------------------
(* The byte strings of the model's universe. *)

Prefix_p == <<"p">>                                \* "p"
Prefix_p_slash == <<"p", "/">>                     \* "p/"
Prefix_q_slash == <<"q", "/">>                     \* "q/"
Prefix_pp_slash == <<"p", "/", "p", "/">>          \* "p/p/"
Name_x == <<"x", ".", "j">>                        \* "x.j"
Name_y == <<"y", ".", "t">>                        \* "y.t"
Name_pz == <<"p", "/", "z", ".", "j">>             \* "p/z.j"
Name_px == <<"p", "/", "x", ".", "j">>             \* "p/x.j"
Key_x == Prefix_p_slash \o Name_x                  \* "p/x.j"
Key_y == Prefix_p_slash \o Name_y                  \* "p/y.t"
Key_z == Prefix_p_slash \o Name_pz                 \* "p/p/z.j"
Key_w == <<"p", "/", "/", "w", ".", "j">>          \* "p//w.j"
Ext_j == <<".", "j">>                              \* ".j"
Ext_t == <<".", "t">>                              \* ".t"
Root == <<"/">>                                    \* "/"
Dir_s == <<"/", "s">>                              \* "/s"
Dir_e == <<"/", "s", "/", "e">>                    \* "/s/e"
Dir_cl == <<"/", "s", "/", "c", ".", "l">>         \* "/s/c.l", a directory
File_a == <<"/", "s", "/", "a", ".", "t">>         \* "/s/a.t"
File_b == <<"/", "s", "/", "b", ".", "t">>         \* "/s/b.t"
File_ea == <<"/", "s", "/", "e", "/", "a", ".", "t">>   \* "/s/e/a.t"
File_no == <<"/", "s", "/", "n", "o">>             \* "/s/no", which does not exist
Base_a == <<"a", ".", "t">>                        \* "a.t"
Base_b == <<"b", ".", "t">>                        \* "b.t"
Base_cl == <<"c", ".", "l">>                       \* "c.l"
Dir_d == <<"/", "d">>                              \* "/d"
Dir_dx == <<"/", "d", "/", "x", ".", "j">>         \* "/d/x.j", a directory in some runs
Path_o == <<"/", "d", "/", "o">>                   \* "/d/o"
Path_n == <<"/", "n", "/", "o">>                   \* "/n/o", whose parent does not exist
Target_u == <<"u">>                                \* "u"
Key_ua == <<"u", "/", "a", ".", "t">>              \* "u/a.t"

\* the invalidations a run requests at most
MaxInvalidations == 2

\* file contents, the empty content among them
Contents == {<<>>, <<"1">>}

\* the initial contents of bucket b1 a run may be given
InitialBuckets ==
    {(Key_x :> <<"1">>) @@ (Key_y :> <<>>) @@ (Key_z :> <<"2">>),
     (Key_x :> <<"1">>) @@ (Key_w :> <<"2">>)}

\* the redirect targets of the routing rules
Targets == {"v1", "v2"}

(* The intents a run draws from, by the attributes of each intent class. *)

UpdateS3RoutingRuleIntents ==
    [type : {"UpdateS3RoutingRule"}, bucket : {"b1", "b2"},
     prefix : {"en", "fr", "de"}, target_prefix : Targets]

CreateCloudFrontInvalidationIntents ==
    [type : {"CreateCloudFrontInvalidation"}, cname : {"c1", "c9"},
     paths : {<<"/a">>, <<"/a", "/b">>}]

DeleteS3KeysIntents ==
    [type : {"DeleteS3Keys"}, bucket : {"b1"}, prefix : {Prefix_p_slash},
     keys : {<<Name_x>>, <<Name_x, Name_y>>, <<Name_y, Name_x, Name_y>>, <<Name_pz>>}]
    \cup [type : {"DeleteS3Keys"}, bucket : {"b1", "b3"}, prefix : {<<>>},
          keys : {<<Key_x>>, <<>>}]

CopyS3KeysIntents ==
    [type : {"CopyS3Keys"}, source_bucket : {"b1"}, source_prefix : {Prefix_p_slash},
     destination_bucket : {"b2"}, destination_prefix : {Prefix_q_slash},
     keys : {<<Name_x, Name_y>>, <<Name_y, Name_pz>>}]
    \cup [type : {"CopyS3Keys"}, source_bucket : {"b1"}, source_prefix : {Prefix_p_slash},
          destination_bucket : {"b1"}, destination_prefix : {Prefix_pp_slash},
          keys : {<<Name_x, Name_px>>}]
    \cup [type : {"CopyS3Keys"}, source_bucket : {"b1", "b3"}, source_prefix : {<<>>},
          destination_bucket : {"b2", "b3"}, destination_prefix : {<<>>},
          keys : {<<Key_x>>}]

ListS3KeysIntents ==
    [type : {"ListS3Keys"}, bucket : {"b1", "b2", "b3"},
     prefix : {<<>>, Prefix_p, Prefix_p_slash}]

DownloadS3KeyIntents ==
    [type : {"DownloadS3Key"}, source_bucket : {"b1", "b2"},
     source_key : {Key_x, Key_ua}, target_path : {Path_o, Path_n}]

DownloadS3KeyRecursivelyIntents ==
    [type : {"DownloadS3KeyRecursively"}, source_bucket : {"b1", "b3"},
     source_prefix : {Prefix_p}, target_path : {Dir_d},
     filter_extensions : {<<Ext_j>>, <<Ext_t, Ext_j>>}]

UploadToS3Intents ==
    [type : {"UploadToS3"}, source_path : {Dir_s, Dir_e}, target_bucket : {"b2"},
     target_key : {Target_u}, file : {File_a, File_ea}]
    \cup [type : {"UploadToS3"}, source_path : {Dir_s}, target_bucket : {"b2", "b3"},
          target_key : {Target_u}, file : {File_b, File_no, Dir_cl}]

UploadToS3RecursivelyIntents ==
    [type : {"UploadToS3Recursively"}, source_path : {Dir_s, Dir_e, File_b},
     target_bucket : {"b2", "b3"}, target_key : {Target_u},
     files : {<<Base_a, Base_cl>>, <<Base_b>>}]

\* an intent of a class that neither dispatcher knows
UnregisteredIntents == [type : {"Unregistered"}]

-----------------------------------------------------------------------------
(* The initial state: a FakeAWS as a test constructs it, the cloud account *)
(* with the same buckets, and a local tree to upload from and download to. *)

\* the state the performers act on
St == [aws |-> aws, cloud |-> cloud, fs |-> fs]

Init ==
    /\ session \in {"routing", "keys", "transfer", "recursive"}
    /\ dispatcher \in {"boto", "fake"}
    /\ \E b1 \in InitialBuckets, a \in Contents, occupied \in SUBSET {Dir_dx} :
          /\ aws = [routing_rules |-> [b \in {"b1"} |-> ("en" :> "v1") @@ ("fr" :> "v2")],
                    s3_buckets |-> ("b1" :> b1) @@ ("b2" :> <<>>),
                    cloudfront_invalidations |-> <<>>]
          /\ cloud = [website |-> [b \in {"b1"} |->
                                      <<[key_prefix |-> "en", replace_key_prefix |-> "v1"],
                                        [key_prefix |-> "fr", replace_key_prefix |-> "v2"],
                                        [key_prefix |-> "en", replace_key_prefix |-> "v2"]>>],
                      keys |-> ("b1" :> b1) @@ ("b2" :> <<>>),
                      public |-> {},
                      distributions |-> <<[id |-> "d1", cnames |-> {"c0"}],
                                          [id |-> "d2", cnames |-> {"c1"}],
                                          [id |-> "d3", cnames |-> {"c1", "c2"}]>>,
                      invalidation_requests |-> <<>>]
          /\ fs = [dirs |-> {Root, Dir_s, Dir_e, Dir_cl, Dir_d} \cup occupied,
                   files |-> (File_a :> a) @@ (File_b :> <<"1">>) @@ (File_ea :> <<"2">>)]
    /\ frame = NoFrame
    /\ inflight = {}
    /\ trace = <<>>
    /\ pre = St
    /\ last = [intent |-> [type |-> "none"], result |-> Returned("None")]

-----------------------------------------------------------------------------
(* dispatch(dispatcher, intent), called by the workflow when no dispatch is *)
(* running.  A sync performer runs to completion in the call; a composite   *)
(* performer starts its generator, and the actions below run it.            *)

\* one event of the trace of sub-intents
Event(ev, intent, performer, error) ==
    [ev |-> ev, intent |-> intent, performer |-> performer, error |-> error]

Dispatch(intent) ==
    /\ frame = NoFrame
    /\ pre' = St
    /\ trace' = <<>>
    /\ LET performer == TypeDispatcher(Table(dispatcher), intent.type) IN
       IF performer = "None"
       THEN /\ last' = [intent |-> intent, result |-> Raised(UnhandledIntent)]
            /\ UNCHANGED <<aws, cloud, fs, frame>>
       ELSE IF performer \in CompositePerformers
       THEN /\ last' = [intent |-> intent, result |-> Pending]
            /\ frame' = NewFrame(performer, intent, fs)
            /\ UNCHANGED <<aws, cloud, fs>>
       ELSE LET r == Perform(performer, St, intent) IN
            /\ last' = [intent |-> intent, result |-> r.result]
            /\ aws' = r.st.aws
            /\ cloud' = r.st.cloud
            /\ fs' = r.st.fs
            /\ UNCHANGED frame
    /\ UNCHANGED <<session, dispatcher, inflight>>

DispatchUpdateS3RoutingRule ==
    /\ session = "routing"
    /\ \E intent \in UpdateS3RoutingRuleIntents : Dispatch(intent)

\* the invalidations requested so far, of either backend
Requested == Len(aws.cloudfront_invalidations) + Len(cloud.invalidation_requests)

DispatchCreateCloudFrontInvalidation ==
    /\ session = "routing"
    /\ Requested < MaxInvalidations
    /\ \E intent \in CreateCloudFrontInvalidationIntents : Dispatch(intent)

DispatchUnregistered ==
    /\ session = "routing"
    /\ \E intent \in UnregisteredIntents : Dispatch(intent)

DispatchDeleteS3Keys ==
    /\ session = "keys"
    /\ \E intent \in DeleteS3KeysIntents : Dispatch(intent)

DispatchCopyS3Keys ==
    /\ session = "keys"
    /\ \E intent \in CopyS3KeysIntents : Dispatch(intent)

DispatchListS3Keys ==
    /\ session = "keys"
    /\ \E intent \in ListS3KeysIntents : Dispatch(intent)

DispatchDownloadS3Key ==
    /\ session = "transfer"
    /\ \E intent \in DownloadS3KeyIntents : Dispatch(intent)

DispatchUploadToS3 ==
    /\ session = "transfer"
    /\ \E intent \in UploadToS3Intents : Dispatch(intent)

DispatchDownloadS3KeyRecursively ==
    /\ session = "recursive"
    /\ \E intent \in DownloadS3KeyRecursivelyIntents : Dispatch(intent)

DispatchUploadToS3Recursively ==
    /\ session = "recursive"
    /\ \E intent \in UploadToS3RecursivelyIntents : Dispatch(intent)

\* a composite performer that catches the exception thrown into its generator and
\* returns None
CompositeRaises_caught(error) ==
    /\ last' = [last EXCEPT !.result = Returned("None")]
    /\ frame' = NoFrame

\* the composite performer raises: the exception leaves dispatch
CompositeRaises(error) ==
    /\ last' = [last EXCEPT !.result = Raised(error)]
    /\ frame' = NoFrame

\* perform_download_s3_key_recursively yields its ListS3Keys
YieldListS3Keys ==
    /\ frame.performer = "perform_download_s3_key_recursively"
    /\ frame.pc = "list"
    /\ CanIssue(inflight)
    /\ inflight' = inflight \cup {ListIntentOf(last.intent)}
    /\ trace' = Append(trace, Event("issue", ListIntentOf(last.intent), "-", "-"))
    /\ frame' = [frame EXCEPT !.pc = "keys"]
    /\ UNCHANGED <<session, dispatcher, aws, cloud, fs, pre, last>>

\* the keys (paths) left to the loop for which the loop body does more than continue
Unskipped(performer, f, intent, todo) ==
    IF performer = "perform_download_s3_key_recursively"
    THEN {key \in todo : ~DownloadLoopBody(f, intent, key).skip}
    ELSE {path \in todo : ~UploadLoopBody(f, intent, path).skip}

\* the for loop of perform_download_s3_key_recursively runs on to its next yield
\* (or raise): it passes over the keys the filter skips and takes a key that is
\* not skipped (a set is iterated in no particular order)
NextDownloadKey ==
    /\ frame.performer = "perform_download_s3_key_recursively"
    /\ frame.pc = "loop"
    /\ CanIssue(inflight)
    /\ \E key \in Unskipped(frame.performer, fs, last.intent, frame.todo) :
          LET body == DownloadLoopBody(fs, last.intent, key) IN
          IF body.error # "none"
          THEN /\ CompositeRaises(body.error)
               /\ UNCHANGED <<fs, inflight, trace>>
          ELSE /\ fs' = body.fs
               /\ inflight' = inflight \cup {body.sub}
               /\ trace' = Append(trace, Event("issue", body.sub, "-", "-"))
               /\ frame' = [frame EXCEPT !.todo = @ \ {key}]
               /\ UNCHANGED last
    /\ UNCHANGED <<session, dispatcher, aws, cloud, pre>>

\* the for loop of perform_upload_s3_key_recursively runs on to its next yield: it
\* passes over the paths of the walk that are skipped and takes one that is not
\* (the order of a directory's children in the walk is the operating system's)
NextUploadPath ==
    /\ frame.performer = "perform_upload_s3_key_recursively"
    /\ frame.pc = "loop"
    /\ CanIssue(inflight)
    /\ \E path \in Unskipped(frame.performer, fs, last.intent, frame.todo) :
          LET body == UploadLoopBody(fs, last.intent, path) IN
          /\ frame' = [frame EXCEPT !.todo = @ \ {path}]
          /\ inflight' = inflight \cup {body.sub}
          /\ trace' = Append(trace, Event("issue", body.sub, "-", "-"))
    /\ UNCHANGED <<session, dispatcher, aws, cloud, fs, pre, last>>

\* the dispatcher performs a yielded sub-intent and resumes the generator with its
\* result, or throws its exception into the generator, which does not catch it
PerformSubIntent ==
    /\ \E sub \in inflight :
          LET performer == TypeDispatcher(Table(SubDispatcher(dispatcher)), sub.type) IN
          /\ inflight' = inflight \ {sub}
          /\ IF performer = "None"
             THEN /\ trace' = Append(trace, Event("complete", sub, "None", UnhandledIntent))
                  /\ CompositeRaises(UnhandledIntent)
                  /\ UNCHANGED <<aws, cloud, fs>>
             ELSE LET r == Perform(performer, St, sub) IN
                  /\ trace' = Append(trace, Event("complete", sub, performer, r.result.error))
                  /\ aws' = r.st.aws
                  /\ cloud' = r.st.cloud
                  /\ fs' = r.st.fs
                  /\ IF r.result.error # "none"
                     THEN CompositeRaises(r.result.error)
                     ELSE /\ frame' = IF frame.pc = "keys"
                                      THEN [frame EXCEPT !.pc = "loop",
                                                         !.todo = r.result.names]
                                      ELSE frame
                          /\ UNCHANGED last
    /\ UNCHANGED <<session, dispatcher, pre>>

\* the loop is left with only skipped keys (paths), the generator is exhausted, and
\* the composite performer returns None
CompositeReturns ==
    /\ frame.pc = "loop"
    /\ Unskipped(frame.performer, fs, last.intent, frame.todo) = {}
    /\ inflight = {}
    /\ last' = [last EXCEPT !.result = Returned("None")]
    /\ frame' = NoFrame
    /\ UNCHANGED <<session, dispatcher, aws, cloud, fs, inflight, trace, pre>>

Next ==
    \/ DispatchUpdateS3RoutingRule
    \/ DispatchCreateCloudFrontInvalidation
    \/ DispatchUnregistered
    \/ DispatchDeleteS3Keys
    \/ DispatchCopyS3Keys
    \/ DispatchListS3Keys
    \/ DispatchDownloadS3Key
    \/ DispatchUploadToS3
    \/ DispatchDownloadS3KeyRecursively
    \/ DispatchUploadToS3Recursively
    \/ YieldListS3Keys
    \/ NextDownloadKey
    \/ NextUploadPath
    \/ PerformSubIntent
    \/ CompositeReturns

Spec == Init /\ [][Next]_vars

(* The runs of one session, for the claims that concern its intents only. *)

InitRouting == Init /\ session = "routing"
NextRouting ==
    \/ DispatchUpdateS3RoutingRule
    \/ DispatchCreateCloudFrontInvalidation
    \/ DispatchUnregistered
SpecRouting == InitRouting /\ [][NextRouting]_vars

InitKeys == Init /\ session = "keys"
NextKeys ==
    \/ DispatchDeleteS3Keys
    \/ DispatchCopyS3Keys
    \/ DispatchListS3Keys
SpecKeys == InitKeys /\ [][NextKeys]_vars

InitTransfer == Init /\ session = "transfer"
NextTransfer ==
    \/ DispatchDownloadS3Key
    \/ DispatchUploadToS3
SpecTransfer == InitTransfer /\ [][NextTransfer]_vars

InitRecursive == Init /\ session = "recursive"
NextRecursive ==
    \/ DispatchDownloadS3KeyRecursively
    \/ DispatchUploadToS3Recursively
    \/ YieldListS3Keys
    \/ NextDownloadKey
    \/ NextUploadPath
    \/ PerformSubIntent
    \/ CompositeReturns
SpecRecursive == InitRecursive /\ [][NextRecursive]_vars

-----------------------------------------------------------------------------
(* The claims. *)

\* the current dispatch is of an intent of the class, and it has ended
Done(type) == last.intent.type = type /\ last.result.error # "pending"

\* the routing rules a dispatcher's backend stores for a bucket, in order, as
\* <<prefix, target>> pairs (the fake holds at most one rule per prefix)
StoredRules(d, st, bucket) ==
    IF d = "boto"
    THEN IF bucket \in DOMAIN st.cloud.website
         THEN {<<i, st.cloud.website[bucket][i].key_prefix,
                 st.cloud.website[bucket][i].replace_key_prefix>> :
                   i \in DOMAIN st.cloud.website[bucket]}
         ELSE {}
    ELSE IF bucket \in DOMAIN st.aws.routing_rules
         THEN {<<1, q, st.aws.routing_rules[bucket][q]>> :
                   q \in DOMAIN st.aws.routing_rules[bucket]}
         ELSE {}

\* the rule an update is about: the first stored rule with the prefix
RuleFor(d, st, bucket, prefix) ==
    CHOOSE r \in StoredRules(d, st, bucket) :
        /\ r[2] = prefix
        /\ \A o \in StoredRules(d, st, bucket) : o[2] = prefix => r[1] <= o[1]

HasRule(d, st, bucket, prefix) == \E r \in StoredRules(d, st, bucket) : r[2] = prefix

\* C1: an UpdateS3RoutingRule whose target_prefix is already the target of the
\* rule for (bucket, prefix) returns None and leaves the stored routing
\* configuration unchanged, with the real and with the fake dispatcher.
C1_SameTargetReturnsNone ==
    (/\ Done("UpdateS3RoutingRule")
     /\ HasRule(dispatcher, pre, last.intent.bucket, last.intent.prefix)
     /\ RuleFor(dispatcher, pre, last.intent.bucket, last.intent.prefix)[3]
            = last.intent.target_prefix)
    => /\ last.result = Returned("None")
       /\ \A b \in {"b1", "b2"} : StoredRules(dispatcher, St, b) = StoredRules(dispatcher, pre, b)

\* C2: an UpdateS3RoutingRule whose target_prefix differs from the target of the
\* rule for (bucket, prefix) returns the prior target; afterwards that rule maps
\* to target_prefix and every other rule of every bucket is as it was.
C2_DifferentTargetReturnsOld ==
    (/\ Done("UpdateS3RoutingRule")
     /\ HasRule(dispatcher, pre, last.intent.bucket, last.intent.prefix)
     /\ RuleFor(dispatcher, pre, last.intent.bucket, last.intent.prefix)[3]
            # last.intent.target_prefix)
    => LET old == RuleFor(dispatcher, pre, last.intent.bucket, last.intent.prefix) IN
       /\ last.result = Returned(old[3])
       /\ StoredRules(dispatcher, St, last.intent.bucket) =
              (StoredRules(dispatcher, pre, last.intent.bucket) \ {old})
                  \cup {<<old[1], old[2], last.intent.target_prefix>>}
       /\ \A b \in {"b1", "b2"} \ {last.intent.bucket} :
              StoredRules(dispatcher, St, b) = StoredRules(dispatcher, pre, b)

C2_Witness ==
    /\ Done("UpdateS3RoutingRule")
    /\ HasRule(dispatcher, pre, last.intent.bucket, last.intent.prefix)
    /\ last.result.error = "none"
    /\ last.result.value \notin {"None", last.intent.target_prefix}
    /\ St # pre

\* the keys a dispatcher's backend stores in a bucket
StoredKeys(d, st, bucket) ==
    IF d = "boto" THEN st.cloud.keys[bucket] ELSE st.aws.s3_buckets[bucket]

\* C3 (as claimed): no name returned by ListS3Keys(bucket, prefix) has prefix as a
\* leading substring.
C3_NoNameStartsWithPrefix ==
    (Done("ListS3Keys") /\ last.result.error = "none")
    => \A name \in last.result.names : ~StartsWith(name, last.intent.prefix)

\* C3 (amended): ListS3Keys(bucket, prefix) returns each stored key that starts
\* with prefix with the prefix stripped once, and nothing else; a returned name
\* still has prefix as a leading substring exactly when its stored key begins with
\* prefix twice, which is every key when prefix is empty.
C3_PrefixStrippedOnce ==
    (Done("ListS3Keys") /\ last.result.error = "none")
    => LET stored == DOMAIN StoredKeys(dispatcher, pre, last.intent.bucket)
           prefix == last.intent.prefix
           names == last.result.names
       IN /\ \A k \in stored : StartsWith(k, prefix) => \E name \in names : prefix \o name = k
          /\ \A name \in names : prefix \o name \in stored
          /\ \A name \in names :
                 StartsWith(name, prefix)
                     <=> \E k \in stored : StartsWith(k, prefix \o prefix) /\ k = prefix \o name

C3_Witness ==
    /\ Done("ListS3Keys")
    /\ last.result.error = "none"
    /\ last.intent.prefix = Prefix_p_slash
    /\ Name_pz \in last.result.names
    /\ Name_x \in last.result.names

\* the performer of FakeAWS for each primitive intent a composite performer yields
FakePrimitive ==
    [ListS3Keys |-> "FakeAWS._perform_list_s3_keys",
     DownloadS3Key |-> "FakeAWS._perform_download_s3_key",
     UploadToS3 |-> "FakeAWS._perform_upload_s3_key"]

\* C4: dispatching an intent of a class without a registered performer raises
\* UnhandledIntent and changes nothing; both tables register every one of the
\* nine intent classes, so no dispatch of one of them, sub-intents of composite
\* performers included, ends in UnhandledIntent.
C4_UnhandledOnlyWhenUnregistered ==
    /\ IntentVariants \subseteq DOMAIN boto_dispatcher
    /\ IntentVariants \subseteq DOMAIN get_dispatcher
    /\ last.intent.type \notin IntentVariants \cup {"none"}
           => last.result = Raised(UnhandledIntent) /\ St = pre /\ trace = <<>>
    /\ last.intent.type \in IntentVariants => last.result.error # UnhandledIntent
    /\ \A i \in DOMAIN trace :
           trace[i].intent.type \in IntentVariants /\ trace[i].error # UnhandledIntent

C4_Witness ==
    /\ last.intent.type = "Unregistered"
    /\ last.result.error = UnhandledIntent

\* C5: both tables map the two composite intents to the same composite
\* performers, and under the fake dispatcher every sub-intent a composite performer
\* yields is performed by FakeAWS's performer for its class, on the in-memory
\* state: the cloud is not touched.
C5_FakeSubIntentsStayFake ==
    /\ \A t \in {"DownloadS3KeyRecursively", "UploadToS3Recursively"} :
           boto_dispatcher[t] = get_dispatcher[t] /\ get_dispatcher[t] \in CompositePerformers
    /\ dispatcher = "fake" =>
           /\ \A i \in DOMAIN trace :
                  trace[i].ev = "complete" =>
                      /\ trace[i].intent.type \in DOMAIN FakePrimitive
                      /\ trace[i].performer = FakePrimitive[trace[i].intent.type]
           /\ cloud = pre.cloud

C5_Witness ==
    /\ dispatcher = "fake"
    /\ Done("DownloadS3KeyRecursively")
    /\ last.result = Returned("None")
    /\ \E i, j \in DOMAIN trace :
           /\ trace[i].ev = "complete" /\ trace[i].intent.type = "ListS3Keys"
           /\ trace[j].ev = "complete" /\ trace[j].intent.type = "DownloadS3Key"
    /\ fs # pre.fs

\* the path of file relative to base: what follows base in file
RelativeTo(file, base) ==
    CHOOSE r \in {Slice(file, n) : n \in 0..Len(file)} : base \o r = file

\* C6: on the fake backend, after a successful UploadToS3 of a file below
\* source_path, a DownloadS3Key of target_bucket at target_key + (the file's path
\* relative to source_path) to a writable target_path succeeds and leaves at
\* target_path the content of the uploaded file, the empty content included.
C6_UploadThenDownloadRoundTrip ==
    [][(/\ dispatcher = "fake"
        /\ Done("UploadToS3")
        /\ last.result.error = "none"
        /\ StartsWith(last.intent.file, last.intent.source_path)
        /\ last'.intent.type = "DownloadS3Key"
        /\ last'.intent.source_bucket = last.intent.target_bucket
        /\ last'.intent.source_key =
               last.intent.target_key \o RelativeTo(last.intent.file, last.intent.source_path)
        /\ Parent(last'.intent.target_path) \in fs.dirs
        /\ last'.intent.target_path \notin fs.dirs)
       => /\ last'.result = Returned("None")
          /\ last'.intent.target_path \in DOMAIN fs'.files
          /\ fs'.files[last'.intent.target_path] = fs.files[last.intent.file]
          /\ fs'.files[last.intent.file] = fs.files[last.intent.file]]_vars

C6_Witness ==
    /\ dispatcher = "fake"
    /\ Done("DownloadS3Key")
    /\ last.result = Returned("None")
    /\ last.intent.source_bucket = "b2"
    /\ last.intent.source_key = Key_ua
    /\ Key_x \notin DOMAIN pre.aws.s3_buckets["b2"]
    /\ pre.fs.files[File_a] = <<>>
    /\ pre.aws.s3_buckets["b2"][Key_ua] = <<>>
    /\ Path_o \notin DOMAIN pre.fs.files
    /\ fs.files[Path_o] = <<>>

\* C7: on the fake backend, after a successful DeleteS3Keys(bucket, prefix, keys),
\* ListS3Keys(bucket, prefix) returns the names it returned before the deletion
\* minus the names in keys; the deleted keys are gone and every other key of the
\* bucket, under the prefix or not, is kept with its content.
C7_DeleteThenList ==
    [][(/\ dispatcher = "fake"
        /\ Done("DeleteS3Keys")
        /\ last.result.error = "none"
        /\ last'.intent.type = "ListS3Keys"
        /\ last'.intent.bucket = last.intent.bucket
        /\ last'.intent.prefix = last.intent.prefix)
       => LET before == pre.aws.s3_buckets[last.intent.bucket]
              after == aws'.s3_buckets[last.intent.bucket]
              deleted == {last.intent.prefix \o key : key \in Range(last.intent.keys)}
          IN /\ last'.result.error = "none"
             /\ last'.result.names =
                    FakeListNames(before, last.intent.prefix) \ Range(last.intent.keys)
             /\ DOMAIN after = DOMAIN before \ deleted
             /\ \A k \in DOMAIN after : after[k] = before[k]]_vars

C7_Witness ==
    /\ dispatcher = "fake"
    /\ Done("DeleteS3Keys")
    /\ last.result = Returned("None")
    /\ last.intent.keys = <<Name_x, Name_y>>
    /\ DOMAIN pre.aws.s3_buckets["b1"] = {Key_x, Key_y, Key_z}
    /\ DOMAIN aws.s3_buckets["b1"] = {Key_z}

\* whether a dispatcher's backend has the bucket
HasBucket(d, st, bucket) ==
    bucket \in DOMAIN (IF d = "boto" THEN st.cloud.keys ELSE st.aws.s3_buckets)

\* the sub-intents the current dispatch has issued, in order
Issued == SelectSeq(trace, LAMBDA e : e.ev = "issue")

\* no sub-intent of the current dispatch has failed
NoSubIntentFailed == \A i \in DOMAIN trace : trace[i].error \in {"-", "none"}

\* the DownloadS3Key the claim names for a relative key: from source_prefix/key
\* to target_path/key
DownloadOf(intent, key) ==
    [type |-> "DownloadS3Key", source_bucket |-> intent.source_bucket,
     source_key |-> intent.source_prefix \o <<"/">> \o key,
     target_path |-> intent.target_path \o <<"/">> \o key]

\* C8: DownloadS3KeyRecursively dispatches one ListS3Keys for source_prefix + "/"
\* and then a DownloadS3Key for exactly the returned relative keys that end with
\* one of filter_extensions, each from source_prefix/key to target_path/key, the
\* parent directory being there when the key is written; the other keys are
\* skipped without error, no file is written for them, and the buckets are left
\* as they were.
C8_DownloadsExactlyTheFilteredKeys ==
    (/\ Done("DownloadS3KeyRecursively")
     /\ NoSubIntentFailed
     /\ HasBucket(dispatcher, pre, last.intent.source_bucket))
    => LET intent == last.intent
           bucket == StoredKeys(dispatcher, pre, intent.source_bucket)
           prefix == intent.source_prefix \o <<"/">>
           listed == {Slice(k, Len(prefix)) : k \in {q \in DOMAIN bucket : StartsWith(q, prefix)}}
           wanted == {k \in listed : EndsWithAny(k, intent.filter_extensions)}
       IN /\ last.result = Returned("None")
          /\ Len(Issued) = 1 + Cardinality(wanted)
          /\ Issued[1].intent = [type |-> "ListS3Keys", prefix |-> prefix,
                                 bucket |-> intent.source_bucket]
          /\ {Issued[i].intent : i \in 2..Len(Issued)} = {DownloadOf(intent, k) : k \in wanted}
          /\ \A k \in wanted :
                 /\ Parent(DownloadOf(intent, k).target_path) \in fs.dirs
                 /\ DownloadOf(intent, k).target_path \in DOMAIN fs.files
                 /\ fs.files[DownloadOf(intent, k).target_path] = bucket[prefix \o k]
          /\ \A q \in DOMAIN fs.files :
                 \/ q \in DOMAIN pre.fs.files /\ fs.files[q] = pre.fs.files[q]
                 \/ \E k \in wanted : q = DownloadOf(intent, k).target_path
          /\ aws.s3_buckets = pre.aws.s3_buckets
          /\ cloud.keys = pre.cloud.keys

\* the UploadToS3 the claim names for a file of the tree
UploadOf(intent, file) ==
    [type |-> "UploadToS3", source_path |-> intent.source_path,
     target_bucket |-> intent.target_bucket, target_key |-> intent.target_key,
     file |-> file]

\* C9: UploadToS3Recursively dispatches an UploadToS3 for exactly the regular
\* files of the tree at source_path whose base name is in files; afterwards the
\* bucket holds each of them at target_key + (path relative to source_path) with
\* the file's content; directories, also those named in files, and files not
\* named in files cause no upload and no error.
C9_UploadsExactlyTheNamedFiles ==
    (/\ Done("UploadToS3Recursively")
     /\ HasBucket(dispatcher, pre, last.intent.target_bucket))
    => LET intent == last.intent
           tree == {q \in DOMAIN pre.fs.files :
                       q = intent.source_path \/ StartsWith(q, intent.source_path \o <<"/">>)}
           wanted == {q \in tree : \E i \in DOMAIN intent.files : Basename(q) = intent.files[i]}
           KeyOf(q) == intent.target_key \o RelativeTo(q, intent.source_path)
           before == StoredKeys(dispatcher, pre, intent.target_bucket)
           after == StoredKeys(dispatcher, St, intent.target_bucket)
       IN /\ last.result = Returned("None")
          /\ Len(Issued) = Cardinality(wanted)
          /\ {Issued[i].intent : i \in DOMAIN Issued} = {UploadOf(intent, q) : q \in wanted}
          /\ DOMAIN after = DOMAIN before \cup {KeyOf(q) : q \in wanted}
          /\ \A q \in wanted : after[KeyOf(q)] = pre.fs.files[q]
          /\ \A k \in DOMAIN before : k \notin {KeyOf(q) : q \in wanted} => after[k] = before[k]
          /\ fs = pre.fs

C9_Witness ==
    /\ Done("UploadToS3Recursively")
    /\ last.result = Returned("None")
    /\ last.intent.source_path = Dir_s
    /\ last.intent.files = <<Base_a, Base_cl>>
    /\ Len(Issued) = 2
    /\ Dir_cl \in pre.fs.dirs
    /\ File_b \in DOMAIN pre.fs.files
    /\ DOMAIN StoredKeys(dispatcher, pre, "b2") = {}
    /\ DOMAIN StoredKeys(dispatcher, St, "b2") = {Key_ua, Target_u \o Slice(File_ea, Len(Dir_s))}

\* C10: a composite performer issues its sub-intents one after another: at most
\* one sub-intent is in progress at any time, each is issued only after the one
\* before it has completed, and in DownloadS3KeyRecursively the ListS3Keys has
\* completed before any DownloadS3Key is issued.
C10_SubIntentsSequential ==
    /\ Cardinality(inflight) <= 1
    /\ \A i \in DOMAIN trace :
           IF i % 2 = 1 THEN trace[i].ev = "issue"
           ELSE trace[i].ev = "complete" /\ trace[i].intent = trace[i - 1].intent
    /\ inflight = IF Len(trace) % 2 = 1 THEN {trace[Len(trace)].intent} ELSE {}
    /\ last.intent.type = "DownloadS3KeyRecursively" =>
           \A i \in DOMAIN trace :
               (trace[i].ev = "issue" /\ trace[i].intent.type = "DownloadS3Key")
                   => /\ trace[1].intent.type = "ListS3Keys"
                      /\ trace[2].ev = "complete"
                      /\ trace[2].error = "none"
                      /\ i > 2

C10_Witness ==
    /\ last.intent.type = "DownloadS3KeyRecursively"
    /\ Len(trace) = 5
    /\ trace[3].intent.type = "DownloadS3Key"
    /\ trace[5].intent.type = "DownloadS3Key"
    /\ Cardinality(inflight) = 1

\* the indices of the trace at which a sub-intent failed
FailedAt == {i \in DOMAIN trace : trace[i].ev = "complete" /\ trace[i].error # "none"}

\* the indices of the trace at which a sub-intent of the type succeeded
SucceededAt(type) ==
    {i \in DOMAIN trace : /\ trace[i].ev = "complete"
                          /\ trace[i].error = "none"
                          /\ trace[i].intent.type = type}

\* C11: when a sub-intent of DownloadS3KeyRecursively or UploadToS3Recursively
\* fails, its failure is the result of the dispatch, unmodified, it is the last
\* sub-intent issued, and what the sub-intents before it did stays: the files the
\* successful DownloadS3Keys wrote hold the keys' contents, the keys the successful
\* UploadToS3s wrote hold the files' contents.
C11_SubIntentFailurePropagates ==
    \A i \in FailedAt :
        /\ last.intent.type \in {"DownloadS3KeyRecursively", "UploadToS3Recursively"}
        /\ last.result = Raised(trace[i].error)
        /\ i = Len(trace)
        /\ inflight = {}
        /\ frame = NoFrame
        /\ \A j \in SucceededAt("DownloadS3Key") :
               /\ trace[j].intent.target_path \in DOMAIN fs.files
               /\ fs.files[trace[j].intent.target_path] =
                      StoredKeys(dispatcher, pre, trace[j].intent.source_bucket)
                          [trace[j].intent.source_key]
        /\ \A j \in SucceededAt("UploadToS3") :
               /\ UploadKeyName(trace[j].intent)
                      \in DOMAIN StoredKeys(dispatcher, St, trace[j].intent.target_bucket)
               /\ StoredKeys(dispatcher, St, trace[j].intent.target_bucket)
                      [UploadKeyName(trace[j].intent)] = pre.fs.files[trace[j].intent.file]
        /\ \A q \in DOMAIN pre.fs.files : q \in DOMAIN fs.files
        /\ pre.fs.dirs \subseteq fs.dirs

C11_Witness ==
    /\ last.intent.type = "DownloadS3KeyRecursively"
    /\ Len(trace) = 6
    /\ trace[4].error = "none"
    /\ trace[4].intent.type = "DownloadS3Key"
    /\ trace[4].intent.target_path \in DOMAIN fs.files \ DOMAIN pre.fs.files
    /\ trace[6].intent.type = "DownloadS3Key"
    /\ trace[6].error \in {"OSError", "IOError"}
    /\ last.result = Raised(trace[6].error)

\* the lookup error of a dictionary without the key
LookupError == "KeyError"

\* C12: on the fake backend, UpdateS3RoutingRule for a bucket that routing_rules
\* does not have, or for a prefix that the bucket's rules do not have, fails with a
\* lookup error, and routing_rules is as it was before: no bucket and no prefix
\* has been added.
C12_FakeUpdateAbsentRuleFails ==
    (/\ dispatcher = "fake"
     /\ Done("UpdateS3RoutingRule")
     /\ \/ last.intent.bucket \notin DOMAIN pre.aws.routing_rules
        \/ last.intent.prefix \notin DOMAIN pre.aws.routing_rules[last.intent.bucket])
    => /\ last.result = Raised(LookupError)
       /\ aws.routing_rules = pre.aws.routing_rules
       /\ aws = pre.aws

C12_Witness ==
    /\ dispatcher = "fake"
    /\ Done("UpdateS3RoutingRule")
    /\ last.intent.bucket = "b1"
    /\ last.intent.prefix = "de"
    /\ last.result = Raised(LookupError)
    /\ pre.aws.routing_rules["b1"]["en"] = "v2"
    /\ DOMAIN aws.routing_rules["b1"] = {"en", "fr"}

\* the failure of [...][0] on the empty list of matching rules
RuleNotFound == "IndexError"

\* C13: the real UpdateS3RoutingRule performer fails with RuleNotFound, the stored
\* configuration untouched, when no routing rule has the intent's prefix as its
\* condition prefix; when several rules have it, the first in the configuration's
\* order is the one read and updated, and the others are as they were.
C13_RealUpdateFirstMatchOrNotFound ==
    (/\ dispatcher = "boto"
     /\ Done("UpdateS3RoutingRule")
     /\ last.intent.bucket \in DOMAIN pre.cloud.website)
    => LET before == pre.cloud.website[last.intent.bucket]
           after == cloud.website[last.intent.bucket]
           matching == {i \in DOMAIN before : before[i].key_prefix = last.intent.prefix}
       IN IF matching = {}
          THEN /\ last.result = Raised(RuleNotFound)
               /\ cloud = pre.cloud
          ELSE \E i \in matching :
                  /\ \A j \in matching : i <= j
                  /\ last.result = IF before[i].replace_key_prefix = last.intent.target_prefix
                                   THEN Returned("None")
                                   ELSE Returned(before[i].replace_key_prefix)
                  /\ Len(after) = Len(before)
                  /\ after[i] = [before[i] EXCEPT !.replace_key_prefix =
                                                       last.intent.target_prefix]
                  /\ \A j \in DOMAIN before : j # i => after[j] = before[j]

C13_Witness ==
    /\ dispatcher = "boto"
    /\ Done("UpdateS3RoutingRule")
    /\ last.intent.prefix = "en"
    /\ last.intent.target_prefix = "v1"
    /\ pre.cloud.website["b1"][1].replace_key_prefix = "v2"
    /\ pre.cloud.website["b1"][3] = [key_prefix |-> "en", replace_key_prefix |-> "v2"]
    /\ last.result = Returned("v2")
    /\ cloud.website["b1"][1].replace_key_prefix = "v1"
    /\ cloud.website["b1"][3].replace_key_prefix = "v2"

\* the no-match case of C13 happens: a prefix no rule has
C13_NotFoundReached ==
    /\ dispatcher = "boto"
    /\ Done("UpdateS3RoutingRule")
    /\ last.intent.bucket = "b1"
    /\ last.intent.prefix = "de"
    /\ last.result = Raised(RuleNotFound)

\* C14: on a fake dispatcher every dispatch of a CreateCloudFrontInvalidation
\* appends that intent to cloudfront_invalidations, an intent equal to an earlier
\* one included, leaving the earlier entries, routing_rules and s3_buckets as they
\* were, and no other step changes the list: the list is the sequence of the
\* CreateCloudFrontInvalidation intents dispatched so far, in dispatch order.
C14_InvalidationsAreTheDispatchedIntents ==
    [][dispatcher = "fake" =>
          IF last'.intent.type = "CreateCloudFrontInvalidation" /\ frame' = NoFrame
             /\ pre' = St
          THEN /\ aws'.cloudfront_invalidations =
                      Append(aws.cloudfront_invalidations, last'.intent)
               /\ last'.result = Returned("None")
               /\ aws'.routing_rules = aws.routing_rules
               /\ aws'.s3_buckets = aws.s3_buckets
          ELSE aws'.cloudfront_invalidations = aws.cloudfront_invalidations]_vars

C14_Witness ==
    /\ dispatcher = "fake"
    /\ Done("CreateCloudFrontInvalidation")
    /\ Len(pre.aws.cloudfront_invalidations) = 1
    /\ pre.aws.cloudfront_invalidations[1] = last.intent
    /\ aws.cloudfront_invalidations = <<last.intent, last.intent>>

\* the source and the destination key names of a CopyS3Keys
SourceKeys(intent) == {intent.source_prefix \o k : k \in Range(intent.keys)}
DestinationKeys(intent) == {intent.destination_prefix \o k : k \in Range(intent.keys)}

\* no key of the source bucket is gone, and every key that is not a destination
\* key has the content it had
CopyKeepsOtherKeys ==
    /\ DOMAIN aws.s3_buckets = DOMAIN pre.aws.s3_buckets
    /\ \A b \in DOMAIN pre.aws.s3_buckets :
           /\ DOMAIN pre.aws.s3_buckets[b] \subseteq DOMAIN aws.s3_buckets[b]
           /\ \A q \in DOMAIN pre.aws.s3_buckets[b] :
                  ~(b = last.intent.destination_bucket /\ q \in DestinationKeys(last.intent))
                      => aws.s3_buckets[b][q] = pre.aws.s3_buckets[b][q]

\* C15 (as claimed): after a successful fake CopyS3Keys, for every key k of the
\* intent the destination bucket holds at destination_prefix + k the content the
\* source bucket held at source_prefix + k before the dispatch, also when the two
\* buckets are one; no key is removed and the other keys keep their content.
C15_CopyOfContentBeforeDispatch ==
    (dispatcher = "fake" /\ Done("CopyS3Keys") /\ last.result = Returned("None"))
    => LET intent == last.intent
           before == pre.aws.s3_buckets[intent.source_bucket]
           after == aws.s3_buckets[intent.destination_bucket]
       IN /\ \A k \in Range(intent.keys) :
                 /\ intent.source_prefix \o k \in DOMAIN before
                 /\ intent.destination_prefix \o k \in DOMAIN after
                 /\ after[intent.destination_prefix \o k] = before[intent.source_prefix \o k]
          /\ CopyKeepsOtherKeys

\* C15 (amended): after a successful fake CopyS3Keys the destination bucket holds
\* at destination_prefix + k, for the last occurrence of every key k of the list,
\* the content the source bucket held at source_prefix + k when k was processed,
\* the keys being processed in list order; that is the content from before the
\* dispatch when the buckets differ or no destination key is a source key.  No key
\* is removed and the keys that are not destination keys keep their content.
C15_CopyOfContentWhenProcessed ==
    (dispatcher = "fake" /\ Done("CopyS3Keys") /\ last.result = Returned("None"))
    => LET intent == last.intent
           keys == intent.keys
           before == pre.aws.s3_buckets[intent.source_bucket]
           after == aws.s3_buckets[intent.destination_bucket]
           WhenProcessed(i) ==
               FakeCopyLoop(pre.aws.s3_buckets, intent, SubSeq(keys, 1, i - 1))
                   .buckets[intent.source_bucket]
       IN /\ \A i \in DOMAIN keys :
                 (\A j \in DOMAIN keys : j > i => keys[j] # keys[i])
                     => /\ intent.source_prefix \o keys[i] \in DOMAIN WhenProcessed(i)
                        /\ intent.destination_prefix \o keys[i] \in DOMAIN after
                        /\ after[intent.destination_prefix \o keys[i]] =
                               WhenProcessed(i)[intent.source_prefix \o keys[i]]
          /\ (\/ intent.source_bucket # intent.destination_bucket
              \/ SourceKeys(intent) \cap DestinationKeys(intent) = {})
                 => \A k \in Range(keys) :
                        /\ intent.source_prefix \o k \in DOMAIN before
                        /\ after[intent.destination_prefix \o k] =
                               before[intent.source_prefix \o k]
          /\ DOMAIN after =
                 DOMAIN pre.aws.s3_buckets[intent.destination_bucket]
                     \cup DestinationKeys(intent)
          /\ CopyKeepsOtherKeys

C15_Witness ==
    /\ dispatcher = "fake"
    /\ Done("CopyS3Keys")
    /\ last.result = Returned("None")
    /\ last.intent.source_bucket = last.intent.destination_bucket
    /\ last.intent.keys = <<Name_x, Name_px>>
    /\ Prefix_pp_slash \o Name_x \notin DOMAIN pre.aws.s3_buckets["b1"]
    /\ aws.s3_buckets["b1"][Prefix_pp_slash \o Name_px] = pre.aws.s3_buckets["b1"][Key_x]

\* the error of a backend for a key (or bucket) it does not hold
MissingKeyError(d) == IF d = "boto" THEN "S3ResponseError" ELSE "KeyError"

\* the positions of a CopyS3Keys' list whose source key is not there when it is
\* the key's turn: neither in the bucket before the dispatch nor, when the two
\* buckets are one, written as the destination of a key before it
AbsentSources(d, st, intent) ==
    {i \in DOMAIN intent.keys :
        /\ intent.source_prefix \o intent.keys[i]
               \notin DOMAIN StoredKeys(d, st, intent.source_bucket)
        /\ \/ intent.source_bucket # intent.destination_bucket
           \/ \A j \in 1..(i - 1) :
                  intent.destination_prefix \o intent.keys[j]
                      # intent.source_prefix \o intent.keys[i]}

\* C16: CopyS3Keys is not transactional.  The keys are copied in list order; when
\* the copy of a key fails because its source key is absent, the failure is the
\* result of the dispatch, the copies of the keys before it are in the
\* destination, and no key after it has been copied.
C16_CopyStopsAtFirstFailure ==
    (/\ Done("CopyS3Keys")
     /\ HasBucket(dispatcher, pre, last.intent.source_bucket)
     /\ HasBucket(dispatcher, pre, last.intent.destination_bucket))
    => LET intent == last.intent
           keys == intent.keys
           absent == AbsentSources(dispatcher, pre, intent)
           source == StoredKeys(dispatcher, pre, intent.source_bucket)
           before == StoredKeys(dispatcher, pre, intent.destination_bucket)
           after == StoredKeys(dispatcher, St, intent.destination_bucket)
       IN /\ last.result.error # "none" <=> absent # {}
          /\ absent # {} =>
                \E f \in absent :
                   /\ \A i \in absent : f <= i
                   /\ last.result = Raised(MissingKeyError(dispatcher))
                   /\ DOMAIN after =
                          DOMAIN before
                              \cup {intent.destination_prefix \o keys[j] : j \in 1..(f - 1)}
                   /\ \A j \in 1..(f - 1) :
                          intent.source_prefix \o keys[j] \in DOMAIN source
                              => after[intent.destination_prefix \o keys[j]] =
                                     source[intent.source_prefix \o keys[j]]
                   /\ \A q \in DOMAIN before :
                          q \notin {intent.destination_prefix \o keys[j] : j \in 1..(f - 1)}
                              => after[q] = before[q]

C16_Witness ==
    /\ Done("CopyS3Keys")
    /\ last.result = Raised(MissingKeyError(dispatcher))
    /\ last.intent.keys = <<Name_x, Name_y>>
    /\ last.intent.destination_bucket = "b2"
    /\ Key_x \in DOMAIN StoredKeys(dispatcher, pre, "b1")
    /\ Key_y \notin DOMAIN StoredKeys(dispatcher, pre, "b1")
    /\ DOMAIN StoredKeys(dispatcher, pre, "b2") = {}
    /\ DOMAIN StoredKeys(dispatcher, St, "b2") = {Prefix_q_slash \o Name_x}

\* the other half of C16 happens: the first key fails and a key after it, whose
\* source is there, is not copied
C16_LaterKeyNotCopied ==
    /\ Done("CopyS3Keys")
    /\ last.result = Raised(MissingKeyError(dispatcher))
    /\ last.intent.keys = <<Name_x, Name_y>>
    /\ Key_x \notin DOMAIN StoredKeys(dispatcher, pre, "b1")
    /\ Key_y \in DOMAIN StoredKeys(dispatcher, pre, "b1")
    /\ Prefix_q_slash \o Name_y \notin DOMAIN StoredKeys(dispatcher, St, "b2")

\* the positions of a DeleteS3Keys' list whose key is not in the bucket when it is
\* the key's turn: not held before the dispatch, or listed at an earlier position
AbsentWhenProcessed(bucket, intent) ==
    {i \in DOMAIN intent.keys :
        \/ intent.prefix \o intent.keys[i] \notin DOMAIN bucket
        \/ \E j \in 1..(i - 1) : intent.keys[j] = intent.keys[i]}

\* C17: the fake DeleteS3Keys fails exactly when some prefix + key is not in the
\* bucket when it is processed, a key listed twice included; keys are processed in
\* list order, so on failure the keys before the first absent one are gone from the
\* bucket and the keys after it that the bucket held are still there.
C17_FakeDeleteStopsAtFirstAbsent ==
    (/\ dispatcher = "fake"
     /\ Done("DeleteS3Keys")
     /\ HasBucket(dispatcher, pre, last.intent.bucket))
    => LET intent == last.intent
           keys == intent.keys
           before == pre.aws.s3_buckets[intent.bucket]
           after == aws.s3_buckets[intent.bucket]
           absent == AbsentWhenProcessed(before, intent)
           Removed(n) == {intent.prefix \o keys[j] : j \in 1..n}
       IN /\ last.result.error # "none" <=> absent # {}
          /\ absent = {} =>
                /\ last.result = Returned("None")
                /\ DOMAIN after = DOMAIN before \ Removed(Len(keys))
          /\ absent # {} =>
                \E f \in absent :
                   /\ \A i \in absent : f <= i
                   /\ last.result = Raised(LookupError)
                   /\ DOMAIN after = DOMAIN before \ Removed(f - 1)
                   /\ \A i \in (f + 1)..Len(keys) :
                          (/\ intent.prefix \o keys[i] \in DOMAIN before
                           /\ intent.prefix \o keys[i] \notin Removed(f - 1))
                              => intent.prefix \o keys[i] \in DOMAIN after
          /\ \A q \in DOMAIN after : after[q] = before[q]
          /\ \A b \in DOMAIN pre.aws.s3_buckets :
                 b # intent.bucket => aws.s3_buckets[b] = pre.aws.s3_buckets[b]

C17_Witness ==
    /\ dispatcher = "fake"
    /\ Done("DeleteS3Keys")
    /\ last.intent.keys = <<Name_y, Name_x, Name_y>>
    /\ DOMAIN pre.aws.s3_buckets["b1"] = {Key_x, Key_y, Key_z}
    /\ last.result = Raised(LookupError)
    /\ DOMAIN aws.s3_buckets["b1"] = {Key_z}

\* the other half of C17 happens: the first key is absent and a key after it is
\* still in the bucket
C17_LaterKeyStillPresent ==
    /\ dispatcher = "fake"
    /\ Done("DeleteS3Keys")
    /\ last.intent.keys = <<Name_y, Name_x, Name_y>>
    /\ Key_y \notin DOMAIN pre.aws.s3_buckets["b1"]
    /\ last.result = Raised(LookupError)
    /\ Key_x \in DOMAIN aws.s3_buckets["b1"]

\* C18: the fake ListS3Keys(bucket, prefix) returns exactly the set of the keys of
\* s3_buckets[bucket] that start with prefix, each without its first len(prefix)
\* characters: a key that does not start with prefix gives no name, distinct
\* matching keys give distinct names, and prefix + name is a stored key for every
\* name returned.
C18_FakeListIsTheStrippedMatches ==
    (/\ dispatcher = "fake"
     /\ Done("ListS3Keys")
     /\ HasBucket(dispatcher, pre, last.intent.bucket))
    => LET prefix == last.intent.prefix
           stored == DOMAIN pre.aws.s3_buckets[last.intent.bucket]
           matching == {k \in stored : /\ Len(k) >= Len(prefix)
                                       /\ SubSeq(k, 1, Len(prefix)) = prefix}
           names == last.result.names
       IN /\ last.result.error = "none"
          /\ names = {SubSeq(k, Len(prefix) + 1, Len(k)) : k \in matching}
          /\ Cardinality(names) = Cardinality(matching)
          /\ \A name \in names : prefix \o name \in stored
          /\ \A k \in stored \ matching : \A name \in names : prefix \o name # k
          /\ aws = pre.aws

C18_Witness ==
    /\ dispatcher = "fake"
    /\ Done("ListS3Keys")
    /\ last.intent.bucket = "b2"
    /\ last.intent.prefix = Prefix_p_slash
    /\ DOMAIN pre.aws.s3_buckets["b2"] = {Key_x, Prefix_q_slash \o Name_x, Prefix_q_slash \o Name_y}
    /\ last.result = ReturnedNames({Name_x})

\* the bucket and the keys a fake performer may write for an intent
WrittenBucket(intent) ==
    CASE intent.type = "DeleteS3Keys" -> intent.bucket
      [] intent.type = "CopyS3Keys" -> intent.destination_bucket
      [] intent.type = "UploadToS3" -> intent.target_bucket
      [] OTHER -> "-"

WrittenKeys(intent) ==
    CASE intent.type = "DeleteS3Keys" -> {intent.prefix \o k : k \in Range(intent.keys)}
      [] intent.type = "CopyS3Keys" -> DestinationKeys(intent)
      [] intent.type = "UploadToS3" -> {UploadKeyName(intent)}
      [] OTHER -> {}

\* the buckets b differs from a only in the keys the intent names
OnlyNamedKeysChanged(intent, a, b) ==
    /\ DOMAIN b = DOMAIN a
    /\ \A n \in DOMAIN a :
           IF n # WrittenBucket(intent) THEN b[n] = a[n]
           ELSE \A q \in (DOMAIN a[n] \cup DOMAIN b[n]) \ WrittenKeys(intent) :
                    /\ q \in DOMAIN a[n]
                    /\ q \in DOMAIN b[n]
                    /\ b[n][q] = a[n][q]

\* the routing rules b differ from a at most in the target of the intent's rule
OnlyNamedRuleChanged(intent, a, b) ==
    /\ DOMAIN b = DOMAIN a
    /\ \A n \in DOMAIN a :
           /\ DOMAIN b[n] = DOMAIN a[n]
           /\ \A q \in DOMAIN a[n] :
                  ~(n = intent.bucket /\ q = intent.prefix) => b[n][q] = a[n][q]

\* what performing the intent may change of the fake state a, giving b
FakeFrame(intent, a, b) ==
    CASE intent.type = "UpdateS3RoutingRule" ->
             /\ OnlyNamedRuleChanged(intent, a.routing_rules, b.routing_rules)
             /\ b.s3_buckets = a.s3_buckets
             /\ b.cloudfront_invalidations = a.cloudfront_invalidations
      [] intent.type \in {"DeleteS3Keys", "CopyS3Keys", "UploadToS3"} ->
             /\ OnlyNamedKeysChanged(intent, a.s3_buckets, b.s3_buckets)
             /\ b.routing_rules = a.routing_rules
             /\ b.cloudfront_invalidations = a.cloudfront_invalidations
      [] intent.type = "CreateCloudFrontInvalidation" ->
             /\ b.routing_rules = a.routing_rules
             /\ b.s3_buckets = a.s3_buckets
      [] OTHER -> b = a

\* C19: each fake performer changes only its own part of the fake state.  A step
\* in which a sync performer is run for a dispatched intent or for a yielded
\* sub-intent changes at most: nothing for ListS3Keys and DownloadS3Key;
\* routing_rules[bucket][prefix] for UpdateS3RoutingRule; the named keys of the
\* named bucket for DeleteS3Keys, CopyS3Keys and UploadToS3, never routing_rules or
\* the invalidations.  A step in which no intent is performed (an intent is only
\* constructed or yielded, a composite performer starts or returns) leaves
\* the fake state as it is.
C19_FakePerformersKeepTheirFrame ==
    [][dispatcher = "fake" =>
          IF frame = NoFrame
          THEN FakeFrame(last'.intent, aws, aws')
          ELSE IF Len(trace') = Len(trace) + 1 /\ trace'[Len(trace')].ev = "complete"
          THEN FakeFrame(trace'[Len(trace')].intent, aws, aws')
          ELSE aws' = aws]_vars

C19_Witness ==
    /\ dispatcher = "fake"
    /\ Done("UploadToS3")
    /\ last.result = Returned("None")
    /\ last.intent.file = File_ea
    /\ last.intent.source_path = Dir_s
    /\ DOMAIN pre.aws.s3_buckets["b2"] = {Key_ua}
    /\ DOMAIN aws.s3_buckets["b2"] = {Key_ua, Target_u \o Slice(File_ea, Len(Dir_s))}
    /\ aws.s3_buckets["b2"][Key_ua] = pre.aws.s3_buckets["b2"][Key_ua]
    /\ aws.s3_buckets["b1"] = pre.aws.s3_buckets["b1"]
    /\ aws.routing_rules = pre.aws.routing_rules

====
